---- MODULE Spec2Model ----
(***************************************************************************)
(* Model of src/transformers/models/rwkv/convert_rwkv_checkpoint_to_hf.py: *)
(* the key-rewriting pass convert_state_dict and the conversion            *)
(* orchestrator convert_rmkv_checkpoint_to_hf_format with its command-line *)
(* entry point.  Parameter names are character strings; the Python string  *)
(* methods and the two regular-expression substitutions are computed       *)
(* character by character.                                                 *)
(***************************************************************************)
EXTENDS Integers, Sequences, FiniteSets, TLC

(***************************************************************************)
(* Bounds of the model.                                                    *)
(***************************************************************************)
\* largest number of parameters in a checkpoint handed to convert_state_dict
MaxKeys == 2
\* largest number of shard files the shard planner returns
MaxShards == 2

(***************************************************************************)
(* Python string primitives.                                               *)
(***************************************************************************)
\* s[i-1 : i-1+len(p)] == p  (i is 1-based)
MatchAt(s, p, i) ==
    /\ i >= 1
    /\ i + Len(p) - 1 <= Len(s)
    /\ SubSeq(s, i, i + Len(p) - 1) = p

\* s.startswith(p)
StartsWith(s, p) == MatchAt(s, p, 1)

\* s.endswith(p)
EndsWith(s, p) == Len(s) >= Len(p) /\ MatchAt(s, p, Len(s) - Len(p) + 1)

\* p in s
Contains(s, p) == \E i \in 1..(Len(s) + 1) : MatchAt(s, p, i)

RECURSIVE ReplaceFrom(_, _, _, _)
\* s.replace(old, new) from position i on: every non-overlapping occurrence,
\* scanning left to right
ReplaceFrom(s, old, new, i) ==
    IF i > Len(s) THEN ""
    ELSE IF MatchAt(s, old, i)
         THEN new \o ReplaceFrom(s, old, new, i + Len(old))
         ELSE SubSeq(s, i, i) \o ReplaceFrom(s, old, new, i + 1)

\* s.replace(old, new), old non-empty
Replace(s, old, new) == ReplaceFrom(s, old, new, 1)

\* the characters \d matches
Digits == {"0", "1", "2", "3", "4", "5", "6", "7", "8", "9"}

RECURSIVE DigitRun(_, _)
\* length of the longest run of digits of s starting at position i
DigitRun(s, i) ==
    IF i <= Len(s) /\ SubSeq(s, i, i) \in Digits
    THEN 1 + DigitRun(s, i + 1)
    ELSE 0

\* length of the match of  blocks\.(\d+)\.<seg>  at position i of s, 0 if none.
\* \d+ is greedy and must be followed by "." , so it takes the whole digit run.
BlocksMatchLen(s, seg, i) ==
    LET nd == DigitRun(s, i + 7)
    IN  IF /\ MatchAt(s, "blocks.", i)
           /\ nd >= 1
           /\ MatchAt(s, "." \o seg, i + 7 + nd)
        THEN 7 + nd + 1 + Len(seg)
        ELSE 0

RECURSIVE ReSubBlocksFrom(_, _, _, _)
\* re.sub(r"blocks\.(\d+)\.<seg>", r"blocks.\1.<repl>", s) from position i on
ReSubBlocksFrom(s, seg, repl, i) ==
    IF i > Len(s) THEN ""
    ELSE LET n == BlocksMatchLen(s, seg, i)
         IN  IF n > 0
             THEN SubSeq(s, i, i + n - 1 - Len(seg)) \o repl
                    \o ReSubBlocksFrom(s, seg, repl, i + n)
             ELSE SubSeq(s, i, i) \o ReSubBlocksFrom(s, seg, repl, i + 1)

\* re.sub(r"blocks\.(\d+)\.<seg>", r"blocks.\1.<repl>", s)
ReSubBlocks(s, seg, repl) == ReSubBlocksFrom(s, seg, repl, 1)

(***************************************************************************)
(* convert_state_dict: the rename of one key (loop body, lines 53-74).     *)
(***************************************************************************)
\* lines 54-55
RuleEmb(name) ==
    IF StartsWith(name, "emb.") THEN Replace(name, "emb.", "embeddings.") ELSE name

\* lines 57-58
RuleLn0(name) ==
    IF StartsWith(name, "blocks.0.ln0")
    THEN Replace(name, "blocks.0.ln0", "blocks.0.pre_ln")
    ELSE name

\* line 60
RuleAtt(name) == ReSubBlocks(name, "att", "attention")

\* a variant of line 62 whose replacement still carries the matched text
RuleFfnKeepsPattern(name) == ReSubBlocks(name, "ffn", "ffn_forward")

\* line 62
RuleFfn(name) == ReSubBlocks(name, "ffn", "feed_forward")

\* lines 64-65
RuleTimeMixK(name) ==
    IF EndsWith(name, ".time_mix_k")
    THEN Replace(name, ".time_mix_k", ".time_mix_key")
    ELSE name

\* lines 67-68
RuleTimeMixV(name) ==
    IF EndsWith(name, ".time_mix_v")
    THEN Replace(name, ".time_mix_v", ".time_mix_value")
    ELSE name

\* lines 70-71
RuleTimeMixR(name) ==
    IF EndsWith(name, ".time_mix_r")
    THEN Replace(name, ".time_mix_r", ".time_mix_receptance")
    ELSE name

\* lines 73-74
RulePrefix(name) == IF name # "head.weight" THEN "rwkv." \o name ELSE name

\* the name under which the loop body re-inserts the weight popped as `name`
rewrite(name) ==
    RulePrefix(RuleTimeMixR(RuleTimeMixV(RuleTimeMixK(
        RuleFfn(RuleAtt(RuleLn0(RuleEmb(name))))))))

(***************************************************************************)
(* A state_dict is a Python dict: a sequence of entries [k, w] in          *)
(* insertion order, with pairwise distinct keys.                           *)
(***************************************************************************)
DictKeys(d) == [i \in 1..Len(d) |-> d[i].k]

DictKeySet(d) == {d[i].k : i \in 1..Len(d)}

DictHas(d, key) == key \in DictKeySet(d)

\* d[key], key present
DictGet(d, key) == d[CHOOSE i \in 1..Len(d) : d[i].k = key].w

\* d after d.pop(key), key present
DictPop(d, key) == SelectSeq(d, LAMBDA e : e.k # key)

\* d after d[key] = w: an existing key keeps its place, a new one goes last
DictSet(d, key, w) ==
    IF DictHas(d, key)
    THEN [i \in 1..Len(d) |-> IF d[i].k = key THEN [k |-> key, w |-> w] ELSE d[i]]
    ELSE Append(d, [k |-> key, w |-> w])

RECURSIVE ConvertLoop(_, _, _)
\* lines 51-76: iterations i.. of the loop over the snapshot state_dict_keys
ConvertLoop(d, state_dict_keys, i) ==
    IF i > Len(state_dict_keys) THEN d
    ELSE LET name   == state_dict_keys[i]
             weight == DictGet(d, name)
         IN  ConvertLoop(DictSet(DictPop(d, name), rewrite(name), weight),
                         state_dict_keys, i + 1)

\* lines 49-77
convert_state_dict(state_dict) == ConvertLoop(state_dict, DictKeys(state_dict), 1)

(***************************************************************************)
(* Module constants and the command line (lines 31-47, 149-193).           *)
(***************************************************************************)
\* Python's None, where a value may be a string or None
None == "<None>"

\* lines 31-38
NUM_HIDDEN_LAYERS_MAPPING ==
    ("169M" :> 12) @@ ("430M" :> 24) @@ ("1B5" :> 24) @@
    ("3B" :> 32) @@ ("7B" :> 32) @@ ("14B" :> 40)

\* lines 40-47
HIDEN_SIZE_MAPPING ==
    ("169M" :> 768) @@ ("430M" :> 1024) @@ ("1B5" :> 2048) @@
    ("3B" :> 2560) @@ ("7B" :> 4096) @@ ("14B" :> 5120)

\* line 91: list(NUM_HIDDEN_LAYERS_MAPPING.keys()), in insertion order
possible_sizes == <<"169M", "430M", "1B5", "3B", "7B", "14B">>

\* line 84
DefaultVocabSize == 50277
\* line 177
DefaultHiddenSize == 256
\* line 182
DefaultNumHiddenLayers == 12

\* The `size` parameter of convert_rmkv_checkpoint_to_hf_format: None, a
\* label or a (num_hidden_layers, hidden_size) tuple.
SizeNone == [kind |-> "none", label |-> None, num_hidden_layers |-> 0, hidden_size |-> 0]
SizeLabel(l) == [kind |-> "label", label |-> l, num_hidden_layers |-> 0, hidden_size |-> 0]
SizeTuple(n, h) == [kind |-> "tuple", label |-> None, num_hidden_layers |-> n, hidden_size |-> h]

\* a variant of lines 187-190 that lets the pair win whenever it was typed
MainSizePairFirst(a) ==
    IF a.pair_given \/ a.size = None
    THEN SizeTuple(a.num_hidden_layers, a.hidden_size)
    ELSE SizeLabel(a.size)

\* lines 187-190: the size __main__ hands to the conversion
MainSize(a) ==
    IF a.size # None
    THEN SizeLabel(a.size)
    ELSE SizeTuple(a.num_hidden_layers, a.hidden_size)

(***************************************************************************)
(* Step 2 of the conversion: resolving the configuration (lines 91-111).   *)
(***************************************************************************)
NoError == [type |-> "none", step |-> "none"]
Raise(type, step) == [type |-> type, step |-> step]

Resolution(err, sz, bound, n, h, inf) ==
    [error |-> err, size |-> sz, bound |-> bound,
     num_hidden_layers |-> n, hidden_size |-> h, inferred |-> inf]

\* lines 99-102: positions of the candidates found in the file name
Candidates(checkpoint_file) ==
    {i \in 1..Len(possible_sizes) : Contains(checkpoint_file, possible_sizes[i])}

\* lines 98-106, size is None
InferSize(checkpoint_file) ==
    IF checkpoint_file = None
    THEN \* line 100: `candidate in None`
         Resolution(Raise("TypeError", "config"), SizeNone, FALSE, 0, 0, FALSE)
    ELSE IF Candidates(checkpoint_file) = {}
    THEN \* line 104
         Resolution(Raise("ValueError", "config"), SizeNone, FALSE, 0, 0, FALSE)
    ELSE LET i == CHOOSE j \in Candidates(checkpoint_file) :
                      \A m \in Candidates(checkpoint_file) : j <= m
             l == possible_sizes[i]
         IN  \* lines 105-106: both dimensions are read from HIDEN_SIZE_MAPPING
             Resolution(NoError, SizeLabel(l), TRUE,
                        HIDEN_SIZE_MAPPING[l], HIDEN_SIZE_MAPPING[l], TRUE)

\* a variant of lines 92-111 without the membership test of line 95
ResolveSizeUnchecked(size, checkpoint_file) ==
    IF size.kind = "tuple"
    THEN Resolution(NoError, size, TRUE, size.num_hidden_layers, size.hidden_size, FALSE)
    ELSE IF size.kind = "label"
    THEN Resolution(Raise("UnboundLocalError", "config"), size, FALSE, 0, 0, FALSE)
    ELSE InferSize(checkpoint_file)

\* lines 92-111: the outcome of resolving (num_hidden_layers, hidden_size)
ResolveSize(size, checkpoint_file) ==
    IF size.kind # "none"
    THEN IF size.kind = "tuple"
         THEN \* line 94
              Resolution(NoError, size, TRUE,
                         size.num_hidden_layers, size.hidden_size, FALSE)
         ELSE IF \A i \in 1..Len(possible_sizes) : possible_sizes[i] # size.label
         THEN \* line 96
              Resolution(Raise("ValueError", "config"), size, FALSE, 0, 0, FALSE)
         ELSE \* a known label assigns neither local: line 109 reads an
              \* unbound local variable
              Resolution(Raise("UnboundLocalError", "config"), size, FALSE, 0, 0, FALSE)
    ELSE InferSize(checkpoint_file)

(***************************************************************************)
(* External collaborators: file names and the shard planner.               *)
(***************************************************************************)
\* transformers.modeling_utils.WEIGHTS_INDEX_NAME
WEIGHTS_INDEX_NAME == "pytorch_model.bin.index.json"

Digit == <<"1", "2", "3", "4", "5", "6", "7", "8", "9">>

\* the file name shard_checkpoint gives shard i of n
ShardFile(i, n) ==
    IF n = 1 THEN "pytorch_model.bin"
    ELSE "pytorch_model-0000" \o Digit[i] \o "-of-0000" \o Digit[n] \o ".bin"

\* the b-th smallest element of the set of cut positions B
Cut(B, b) == CHOOSE c \in B : Cardinality({x \in B : x < c}) = b - 1

\* shard_checkpoint(state_dict): consecutive non-empty runs of the entries,
\* cut after the positions in B; the index is None for a single shard
ShardPlan(d, B) ==
    LET n == Cardinality(B) + 1
        first(i) == IF i = 1 THEN 1 ELSE Cut(B, i - 1) + 1
        last(i) == IF i = n THEN Len(d) ELSE Cut(B, i)
        file_of(j) == ShardFile(CHOOSE i \in 1..n : first(i) <= j /\ j <= last(i), n)
    IN  [shards |-> [i \in 1..n |->
                        [file |-> ShardFile(i, n), data |-> SubSeq(d, first(i), last(i))]],
         index |-> IF n = 1
                   THEN [is_none |-> TRUE, weight_map |-> <<>>]
                   ELSE [is_none |-> FALSE,
                         weight_map |-> [j \in 1..Len(d) |->
                                            [k |-> d[j].k, file |-> file_of(j)]]]]

\* every plan the shard planner may return for d
shard_checkpoint(d) ==
    {ShardPlan(d, B) : B \in {C \in SUBSET (1..(Len(d) - 1)) : Cardinality(C) < MaxShards}}

(***************************************************************************)
(* The file system: a function from paths [dir, name] to file contents.    *)
(***************************************************************************)
\* os.path.join(output_dir, name)
InOutputDir(name) == [dir |-> "output_dir", name |-> name]

\* a relative path, resolved against the working directory of the process
Relative(a, name) ==
    [dir |-> IF a.cwd_is_output_dir THEN "output_dir" ELSE "cwd", name |-> name]

File(kind, data, compact) == [kind |-> kind, data |-> data, compact |-> compact]

Write(f, path, content) ==
    [q \in DOMAIN f \cup {path} |-> IF q = path THEN content ELSE f[q]]

\* the part of the file system under output_dir
OutputDir(f) == [q \in {x \in DOMAIN f : x.dir = "output_dir"} |-> f[q]]

EmptyFS == [q \in {} |-> File("none", <<>>, FALSE)]

\* shard files left in the working directory by an earlier conversion
StaleFS ==
    [q \in {[dir |-> "cwd", name |-> ShardFile(i, n)] :
                i \in 1..(MaxShards + 1), n \in 2..(MaxShards + 1)} |->
        File("shard", <<[k |-> "rwkv.stale.weight", w |-> 0]>>, TRUE)]

(***************************************************************************)
(* Inputs.                                                                 *)
(***************************************************************************)
Labels == {possible_sizes[i] : i \in 1..Len(possible_sizes)}

\* values of --size: absent, a known label, an unknown label
SizeArgs == {None, "999Z"} \cup Labels

\* values of --num_hidden_layers/--hidden_size when the caller types them
ExplicitPairs == {<<6, 512>>, <<24, 1024>>}

CheckpointFiles ==
    {None, "RWKV-4-Pile-430M-20220808-8066.pth", "RWKV-4-Pile-14B-20230313.pth",
     "rwkv-169M-vs-430M.pth", "model.pth"}

\* vocabulary sizes a tokenizer file may hold
TokenizerVocabSizes == {50277, 65536}

Checkpoint(ks) == [i \in 1..Len(ks) |-> [k |-> ks[i], w |-> i]]

\* parameter names of checkpoints given to convert_state_dict
Keys ==
    {"emb.weight", "embeddings.weight", "emb.emb.weight",
     "blocks.0.ln0.weight", "blocks.1.ln0.weight",
     "blocks.3.att.time_mix_k", "blocks.0.att.time_mix_v",
     "blocks.12.ffn.time_mix_r", "blocks.0.ffn.key.weight",
     "ln_out.weight", "rwkv.ln_out.weight", "time_mix_k", "head.weight"}

\* mappings with unique keys, at most MaxKeys of them, in any order
Checkpoints ==
    {Checkpoint(ks) : ks \in {f \in UNION {[1..n -> Keys] : n \in 0..MaxKeys} :
                                 \A i, j \in DOMAIN f : i # j => f[i] # f[j]}}

\* the contents torch.load may find in the source file of a full run
LoadableCheckpoints ==
    {Checkpoint(<<"emb.weight", "blocks.0.ln0.weight", "blocks.0.att.time_mix_k",
                  "blocks.0.ffn.key.weight", "head.weight">>),
     Checkpoint(<<"ln_out.weight", "rwkv.ln_out.weight">>),
     Checkpoint(<<"head.weight">>)}

(***************************************************************************)
(* State.                                                                  *)
(***************************************************************************)
VARIABLES
    pc,          \* position of the run: "main", "tokenizer", "config", "load",
                 \* "shard", "save", "resave", "done" (returned), "failed"
                 \* (an exception left the process), "idle" (no run)
    args,        \* the command line or the call, and the process environment
    size,        \* the parameter/local `size`
    vocab_size,  \* the local vocab_size
    config,      \* the locals num_hidden_layers, hidden_size and the RwkvConfig
    state_dict,  \* the local state_dict
    shards,      \* the local shards, as a sequence of [file, data]
    index,       \* the local index
    shard_files, \* the local shard_files of step 5
    next,        \* position of the running for loop
    fs,          \* the file system
    error,       \* the exception that ended the run
    saved,       \* history: paths torch.save wrote in step 4
    written,     \* history: output_dir as step 4 left it
    resaved,     \* history: paths step 5 loaded and saved again
    rw_pc,       \* convert_state_dict on its own: "input", "converted",
                 \* "reconverted", "idle"
    rw_in,       \* the mapping given to convert_state_dict
    rw_out,      \* what it returned
    rw_out2      \* what it returned when given rw_out

vars == <<pc, args, size, vocab_size, config, state_dict, shards, index, shard_files,
          next, fs, error, saved, written, resaved, rw_pc, rw_in, rw_out, rw_out2>>

run_vars == <<pc, args, size, vocab_size, config, state_dict, shards, index,
              shard_files, next, fs, error, saved, written, resaved>>

rw_vars == <<rw_pc, rw_in, rw_out, rw_out2>>

Unbound == [bound |-> FALSE, inferred |-> FALSE, num_hidden_layers |-> 0, hidden_size |-> 0]

NoIndex == [is_none |-> TRUE, weight_map |-> <<>>]

Args(entry, sz, given, n, h, call_size, repo, ckpt, model, tok, cwd_out, stale) ==
    [entry |-> entry, size |-> sz, pair_given |-> given,
     num_hidden_layers |-> n, hidden_size |-> h, call_size |-> call_size,
     repo_id |-> repo, checkpoint_file |-> ckpt, model_file |-> model,
     tokenizer_file |-> tok, cwd_is_output_dir |-> cwd_out, stale_in_cwd |-> stale]

\* the locals before the first statement runs
RunLocals ==
    /\ vocab_size = 0
    /\ config = Unbound
    /\ state_dict = <<>>
    /\ shards = <<>>
    /\ index = NoIndex
    /\ shard_files = <<>>
    /\ next = 0
    /\ error = NoError
    /\ saved = {}
    /\ written = EmptyFS
    /\ resaved = {}

RwIdle ==
    /\ rw_pc = "idle"
    /\ rw_in = <<>>
    /\ rw_out = <<>>
    /\ rw_out2 = <<>>

\* python convert_rwkv_checkpoint_to_hf.py ...   (lines 149-186)
InitMain ==
    \E sz \in SizeArgs, given \in BOOLEAN, pair \in ExplicitPairs,
       repo \in {None, "BlinkDL/rwkv-4-pile-430m"}, ckpt \in CheckpointFiles,
       model \in {None, "local.pth"}, tok \in {None, "tokenizer.json"},
       cwd_out \in BOOLEAN, stale \in BOOLEAN :
        /\ given \/ pair = <<6, 512>>
        /\ ~(cwd_out /\ stale)
        /\ args = Args("main", sz, given,
                       IF given THEN pair[1] ELSE DefaultNumHiddenLayers,
                       IF given THEN pair[2] ELSE DefaultHiddenSize,
                       SizeNone, repo, ckpt, model, tok, cwd_out, stale)
        /\ pc = "main"
        /\ size = SizeNone

\* convert_rmkv_checkpoint_to_hf_format(...) called from other code (line 80)
InitCall ==
    \E sz \in {SizeNone} \cup {SizeLabel(l) : l \in Labels \cup {"999Z"}}
                \cup {SizeTuple(p[1], p[2]) : p \in ExplicitPairs},
       repo \in {None, "BlinkDL/rwkv-4-pile-430m"}, ckpt \in CheckpointFiles,
       model \in {None, "local.pth"}, tok \in {None, "tokenizer.json"},
       cwd_out \in BOOLEAN, stale \in BOOLEAN :
        /\ ~(cwd_out /\ stale)
        /\ args = Args("call", None, FALSE, 0, 0, sz, repo, ckpt, model, tok,
                       cwd_out, stale)
        /\ pc = "tokenizer"
        /\ size = sz

Init ==
    /\ InitMain \/ InitCall
    /\ fs = IF args.stale_in_cwd THEN StaleFS ELSE EmptyFS
    /\ RunLocals
    /\ RwIdle

(***************************************************************************)
(* The run, statement by statement.                                        *)
(***************************************************************************)
\* lines 186-193
Main ==
    /\ pc = "main"
    /\ size' = MainSize(args)
    /\ pc' = "tokenizer"
    /\ UNCHANGED <<args, vocab_size, config, state_dict, shards, index, shard_files,
                   next, fs, error, saved, written, resaved, rw_vars>>

\* lines 82-88
BuildTokenizer ==
    /\ pc = "tokenizer"
    /\ IF args.tokenizer_file = None
       THEN /\ vocab_size' = DefaultVocabSize
            /\ fs' = fs
       ELSE \E v \in TokenizerVocabSizes :
            /\ vocab_size' = v
            /\ fs' = Write(fs, InOutputDir("tokenizer.json"),
                           File("tokenizer", <<v>>, FALSE))
    /\ pc' = "config"
    /\ UNCHANGED <<args, size, config, state_dict, shards, index, shard_files,
                   next, error, saved, written, resaved, rw_vars>>

\* lines 91-112
BuildConfig ==
    /\ pc = "config"
    /\ LET r == ResolveSize(size, args.checkpoint_file)
       IN  /\ size' = r.size
           /\ error' = r.error
           /\ IF r.error.type # "none"
              THEN /\ pc' = "failed"
                   /\ UNCHANGED <<config, fs>>
              ELSE /\ config' = [bound |-> TRUE, inferred |-> r.inferred,
                                 num_hidden_layers |-> r.num_hidden_layers,
                                 hidden_size |-> r.hidden_size]
                   /\ fs' = Write(fs, InOutputDir("config.json"),
                                  File("config",
                                       <<vocab_size, r.num_hidden_layers, r.hidden_size>>,
                                       FALSE))
                   /\ pc' = "load"
    /\ UNCHANGED <<args, vocab_size, state_dict, shards, index, shard_files,
                   next, saved, written, resaved, rw_vars>>

\* lines 115-118: whether a source file is named at all
HasSource(a) ==
    \/ a.repo_id # None /\ a.checkpoint_file # None
    \/ a.model_file # None

\* lines 115-120, the download and the load succeed
LoadAndConvert ==
    /\ pc = "load"
    /\ HasSource(args)
    /\ \E sd \in LoadableCheckpoints : state_dict' = convert_state_dict(sd)
    /\ pc' = "shard"
    /\ UNCHANGED <<args, size, vocab_size, config, shards, index, shard_files,
                   next, fs, error, saved, written, resaved, rw_vars>>

\* lines 115-119, hf_hub_download or torch.load raises
LoadFails ==
    /\ pc = "load"
    /\ error' = Raise("LoadError", "load")
    /\ pc' = "failed"
    /\ UNCHANGED <<args, size, vocab_size, config, state_dict, shards, index,
                   shard_files, next, fs, saved, written, resaved, rw_vars>>

\* line 123
Shard ==
    /\ pc = "shard"
    /\ \E plan \in shard_checkpoint(state_dict) :
        /\ shards' = plan.shards
        /\ index' = plan.index
    /\ next' = 1
    /\ pc' = "save"
    /\ UNCHANGED <<args, size, vocab_size, config, state_dict, shard_files,
                   fs, error, saved, written, resaved, rw_vars>>

\* lines 124-125, one iteration
SaveShard ==
    /\ pc = "save"
    /\ next <= Len(shards)
    /\ LET path == InOutputDir(shards[next].file)
       IN  /\ fs' = Write(fs, path, File("shard", shards[next].data, FALSE))
           /\ saved' = saved \cup {path}
    /\ next' = next + 1
    /\ UNCHANGED <<pc, args, size, vocab_size, config, state_dict, shards, index,
                   shard_files, error, written, resaved, rw_vars>>

\* line 127 with index None: the function returns
ReturnWithoutIndex ==
    /\ pc = "save"
    /\ next > Len(shards)
    /\ index.is_none
    /\ written' = OutputDir(fs)
    /\ pc' = "done"
    /\ UNCHANGED <<args, size, vocab_size, config, state_dict, shards, index,
                   shard_files, next, fs, error, saved, resaved, rw_vars>>

\* lines 127-142
SaveIndex ==
    /\ pc = "save"
    /\ next > Len(shards)
    /\ ~index.is_none
    /\ fs' = Write(fs, InOutputDir(WEIGHTS_INDEX_NAME),
                   File("index", index.weight_map, FALSE))
    /\ written' = OutputDir(fs')
    /\ shard_files' = [i \in 1..Len(shards) |-> shards[i].file]
    /\ state_dict' = <<>>
    /\ shards' = <<>>
    /\ next' = 1
    /\ pc' = "resave"
    /\ UNCHANGED <<args, size, vocab_size, config, index, error, saved, resaved,
                   rw_vars>>

\* lines 144-146, one iteration: torch.load(shard_file), torch.save(..., shard_file)
ResaveShard ==
    /\ pc = "resave"
    /\ next <= Len(shard_files)
    /\ LET path == Relative(args, shard_files[next])
       IN  IF path \in DOMAIN fs
           THEN /\ state_dict' = fs[path].data
                /\ fs' = Write(fs, path, File("shard", fs[path].data, TRUE))
                /\ resaved' = resaved \cup {path}
                /\ next' = next + 1
                /\ UNCHANGED <<pc, error>>
           ELSE /\ error' = Raise("FileNotFoundError", "resave")
                /\ pc' = "failed"
                /\ UNCHANGED <<state_dict, fs, resaved, next>>
    /\ UNCHANGED <<args, size, vocab_size, config, shards, index, shard_files,
                   saved, written, rw_vars>>

\* lines 145-146, one iteration that runs out of memory while loading or cloning
ResaveOutOfMemory ==
    /\ pc = "resave"
    /\ next <= Len(shard_files)
    /\ Relative(args, shard_files[next]) \in DOMAIN fs
    /\ error' = Raise("OutOfMemoryError", "resave")
    /\ pc' = "failed"
    /\ UNCHANGED <<args, size, vocab_size, config, state_dict, shards, index,
                   shard_files, next, fs, saved, written, resaved, rw_vars>>

\* line 144, the loop is exhausted: the function returns
ResaveDone ==
    /\ pc = "resave"
    /\ next > Len(shard_files)
    /\ pc' = "done"
    /\ UNCHANGED <<args, size, vocab_size, config, state_dict, shards, index,
                   shard_files, next, fs, error, saved, written, resaved, rw_vars>>

Next ==
    \/ Main
    \/ BuildTokenizer
    \/ BuildConfig
    \/ LoadAndConvert
    \/ LoadFails
    \/ Shard
    \/ SaveShard
    \/ ReturnWithoutIndex
    \/ SaveIndex
    \/ ResaveShard
    \/ ResaveOutOfMemory
    \/ ResaveDone

Spec == Init /\ [][Next]_vars

(***************************************************************************)
(* convert_state_dict on its own, over every checkpoint of Checkpoints.    *)
(***************************************************************************)
InitRewrite ==
    /\ rw_pc = "input"
    /\ rw_in \in Checkpoints
    /\ rw_out = <<>>
    /\ rw_out2 = <<>>
    /\ pc = "idle"
    /\ args = Args("call", None, FALSE, 0, 0, SizeNone, None, None, None, None,
                   TRUE, FALSE)
    /\ size = SizeNone
    /\ fs = EmptyFS
    /\ RunLocals

\* state_dict = convert_state_dict(state_dict)
Convert ==
    /\ rw_pc = "input"
    /\ rw_out' = convert_state_dict(rw_in)
    /\ rw_pc' = "converted"
    /\ UNCHANGED <<rw_in, rw_out2, run_vars>>

\* convert_state_dict applied to the mapping it returned
Reconvert ==
    /\ rw_pc = "converted"
    /\ rw_out2' = convert_state_dict(rw_out)
    /\ rw_pc' = "reconverted"
    /\ UNCHANGED <<rw_in, rw_out, run_vars>>

NextRewrite == Convert \/ Reconvert

SpecRewrite == InitRewrite /\ [][NextRewrite]_vars

(***************************************************************************)
(* Properties.                                                             *)
(***************************************************************************)
\* the configuration step has run
ConfigStepOver == pc \in {"load", "shard", "save", "resave", "done", "failed"}

ConfigPath == InOutputDir("config.json")

\* the persisted configuration holds the given dimensions
PersistedConfigIs(n, h) ==
    /\ config.bound
    /\ ConfigPath \in DOMAIN fs
    /\ fs[ConfigPath].kind = "config"
    /\ fs[ConfigPath].data = <<vocab_size, n, h>>

\* the label the run was started with, None if it was started with none
SuppliedLabel ==
    IF args.entry = "main" THEN args.size
    ELSE IF args.call_size.kind = "label" THEN args.call_size.label
    ELSE None

\* the run was started with this label as its size
StartedWithLabel(l) == SuppliedLabel = l

\* the function was called without any size
StartedWithoutSize == args.entry = "call" /\ args.call_size.kind = "none"

\* C1: a run given a size label of the profile table resolves its
\* configuration, and the persisted configuration has hidden_size from the
\* hidden-size table and num_hidden_layers from the layer-count table.
C1_KnownLabelBuildsProfile ==
    \A l \in Labels :
        (ConfigStepOver /\ StartedWithLabel(l)) =>
            /\ error.step # "config"
            /\ PersistedConfigIs(NUM_HIDDEN_LAYERS_MAPPING[l], HIDEN_SIZE_MAPPING[l])

\* C2: a run given no size whose checkpoint file name contains a known label
\* builds the configuration with that label's profile: hidden_size from the
\* hidden-size table, num_hidden_layers from the layer-count table.
C2_InferredLabelBuildsProfile ==
    (/\ ConfigStepOver
     /\ StartedWithoutSize
     /\ args.checkpoint_file # None
     /\ \E l \in Labels : Contains(args.checkpoint_file, l)) =>
        /\ size.kind = "label"
        /\ Contains(args.checkpoint_file, size.label)
        /\ PersistedConfigIs(NUM_HIDDEN_LAYERS_MAPPING[size.label],
                             HIDEN_SIZE_MAPPING[size.label])

UnknownLabelSupplied == SuppliedLabel # None /\ SuppliedLabel \notin Labels

\* no size was supplied and the file name holds no known label
NothingToInfer ==
    /\ StartedWithoutSize
    /\ args.checkpoint_file # None
    /\ \A l \in Labels : ~Contains(args.checkpoint_file, l)

\* what the run leaves when it stops inside the configuration step
NothingBuilt ==
    /\ pc = "failed"
    /\ error.step = "config"
    /\ \A q \in DOMAIN fs :
           q.dir = "output_dir" => fs[q].kind \notin {"config", "shard", "index"}
    /\ ~config.bound
    /\ state_dict = <<>>
    /\ shards = <<>>
    /\ index = NoIndex
    /\ saved = {}
    /\ resaved = {}

C5_CardinalityPreserved ==
    rw_pc # "input" => Len(rw_out) = Len(rw_in)

\* rewrite only the leading occurrence of old
PrefixOnly(name, old, new) ==
    IF StartsWith(name, old)
    THEN new \o SubSeq(name, Len(old) + 1, Len(name))
    ELSE name

\* rewrite only the trailing occurrence of old
SuffixOnly(name, old, new) ==
    IF EndsWith(name, old)
    THEN SubSeq(name, 1, Len(name) - Len(old)) \o new
    ELSE name

\* step 8 alone
PrefixStep(name) == IF name = "head.weight" THEN name ELSE "rwkv." \o name

\* the eight rules as C6 reads them
RulesAsStated(name) ==
    LET n1 == PrefixOnly(name, "emb.", "embeddings.")
        n2 == PrefixOnly(n1, "blocks.0.ln0", "blocks.0.pre_ln")
        n3 == ReSubBlocks(n2, "att", "attention")
        n4 == ReSubBlocks(n3, "ffn", "feed_forward")
        n5 == SuffixOnly(n4, ".time_mix_k", ".time_mix_key")
        n6 == SuffixOnly(n5, ".time_mix_v", ".time_mix_value")
        n7 == SuffixOnly(n6, ".time_mix_r", ".time_mix_receptance")
    IN  PrefixStep(n7)

\* C6: every key is renamed as the eight rules say, rules 1-2 touching only
\* the leading prefix, rules 5-7 only the trailing suffix, the rest of the
\* key unchanged.
C6_RulesRewriteOnlyTheirPlace ==
    rw_pc # "input" =>
        \A i \in DOMAIN rw_in : rewrite(rw_in[i].k) = RulesAsStated(rw_in[i].k)

\* C7: a failure of the re-save pass is tolerated: the run does not end as a
\* failure and output_dir stays as the save step left it.
C7_ResaveFailureTolerated ==
    error.step = "resave" =>
        /\ pc # "failed"
        /\ OutputDir(fs) = written

\* C8 as stated: on the keys of an already converted mapping a second
\* conversion changes nothing but step 8's prefix.
C8_SecondPassOnlyPrefixes ==
    rw_pc = "reconverted" =>
        \A i \in DOMAIN rw_out : rewrite(rw_out[i].k) = PrefixStep(rw_out[i].k)

\* rule 3 matches somewhere in the key
HasAttMatch(name) == \E i \in 1..Len(name) : BlocksMatchLen(name, "att", i) > 0

\* one of rules 5-7 matches the end of the key
HasTimeMixSuffix(name) ==
    \/ EndsWith(name, ".time_mix_k")
    \/ EndsWith(name, ".time_mix_v")
    \/ EndsWith(name, ".time_mix_r")

\* C8 amended: on the keys of an already converted mapping a second
\* conversion changes nothing but step 8's prefix, except for keys that hold
\* a blocks.<N>.att match (rule 3 fires again inside blocks.<N>.attention)
\* or end with .time_mix_k/_v/_r (a bare time_mix_k key after prefixing);
\* rules 1, 2 and 4 never fire again.
C8_SecondPassOnlyPrefixesOutsideAtt ==
    rw_pc = "reconverted" =>
        \A i \in DOMAIN rw_out :
            (~HasAttMatch(rw_out[i].k) /\ ~HasTimeMixSuffix(rw_out[i].k)) =>
                rewrite(rw_out[i].k) = PrefixStep(rw_out[i].k)

\* C8's case: a key rule 4 rewrote went through the second conversion
C8_Witness ==
    /\ rw_pc = "reconverted"
    /\ DictHas(rw_out, "rwkv.blocks.0.feed_forward.key.weight")
    /\ DictHas(rw_out2, "rwkv.rwkv.blocks.0.feed_forward.key.weight")

\* a mapping as a set of (key, tensor) pairs
Pairs(d) == {<<d[i].k, d[i].w>> : i \in DOMAIN d}

\* {rewrite(k): v for k, v in snapshot}: a later key wins a shared name
FreshBuild(d) ==
    {<<rewrite(d[i].k), d[i].w>> :
        i \in {j \in DOMAIN d :
                  \A m \in DOMAIN d : m > j => rewrite(d[m].k) # rewrite(d[j].k)}}

\* C9: the pop-and-reinsert loop returns the mapping a fresh build over a
\* snapshot of the input returns: every tensor under the rewritten name of
\* its own key.
C9_InPlaceEqualsFreshBuild ==
    rw_pc # "input" => Pairs(rw_out) = FreshBuild(rw_in)

\* C10: in a run that returns, every shard file the save step wrote was
\* loaded and saved again by the re-save pass at that same path.
C10_EverySavedShardResaved ==
    pc = "done" => saved \subseteq resaved

====
